---- MODULE Spec2Model ----
(***************************************************************************)
(* The list views of accountability-fe (StreaksListView, GoalsListView,    *)
(* LogHistoryView) as one state machine: one view instance from its first  *)
(* render to its unmount, with its React state (item list, loading, error, *)
(* from/to filters), the requests its load() calls have started, and the   *)
(* events a browser delivers to it: a changed prop, a changed filter, a    *)
(* Refresh click, the settlement of the two promises load() awaits         *)
(* (fetch, res.json()), and the unmount.                                   *)
(*                                                                         *)
(* One action is one browser task together with the microtasks it leaves   *)
(* behind: JavaScript runs a handler to completion, and a promise that a   *)
(* handler rejects (controller.abort()) has its continuation run before    *)
(* any other event is delivered.                                           *)
(*                                                                         *)
(* The repository holds two versions of StreaksListView: the one App.tsx   *)
(* imports (src/src/views/StreaksListView.tsx, kind "streaks") and an      *)
(* earlier one (src/unnamed/part_001 lines 1-114, kind "streaks2").        *)
(*                                                                         *)
(* Spec is that view machine. AppSpec is the Navigation Shell of App.tsx:  *)
(* the two selections, the rows the shown view has loaded, and the clicks  *)
(* on a row and on the Back buttons. Each specification leaves the other's *)
(* variables at their initial values.                                      *)
(***************************************************************************)
EXTENDS Integers, Sequences, FiniteSets, TLC

\* ------------------------------------------------------------- bounds
MaxRequests == 3   \* load() calls in one behaviour
MaxItems == 1      \* length of a response array
MaxClicks == 4     \* clicks on rows and Back buttons in one behaviour

Kinds == {"streaks", "streaks2", "goals", "logs"}
Ids == {"A", "B"}              \* scoping ids: userId / streakId / goalId
FirstId == "A"                 \* the scoping id of the first render
Dates == {"", "2025-08-19"}    \* value of a <input type="date">; "" is cleared
ErrorStatuses == {500}         \* statuses with res.ok = false

VARIABLES
    mounted,    \* the view instance is in the React tree
    crashed,    \* a render threw: React has removed the whole tree
    kind,       \* which view this is
    id,         \* prop userId / streakId / goalId
    from,       \* state from (LogHistoryView)
    to,         \* state to (LogHistoryView)
    items,      \* state streaks / goals / entries
    loading,    \* state loading
    error,      \* state error
    requests,   \* every load() call so far, in call order
    selectedStreak,  \* App state selectedStreak
    selectedGoal,    \* App state selectedGoal
    rows,            \* the rows of the view App shows
    clicks,          \* the click handlers App has run, each with the selections before it
    cell,            \* a list item: the goal or entry a view renders, with the view's props
    text             \* the text the item's line shows, once rendered

viewVars == <<mounted, crashed, kind, id, from, to, items, loading, error, requests>>
appVars == <<selectedStreak, selectedGoal, rows, clicks>>
cellVars == <<cell, text>>
vars == <<viewVars, appVars, cellVars>>

\* useState(null) of both selections
NoSelection == [null |-> TRUE]

\* App before any click: no selection, and a Streaks view that has loaded nothing.
AppIdle ==
    /\ selectedStreak = NoSelection
    /\ selectedGoal = NoSelection
    /\ rows = {}
    /\ clicks = <<>>

\* No list item is on screen.
NoCell == [view |-> "none"]
NoText == [rendered |-> FALSE]
CellIdle == cell = NoCell /\ text = NoText

\* ------------------------------------------------------------- values
\* error = null
Null == [req |-> 0, msg |-> <<>>]

\* useState<Streak[]>([]): the empty array no response has produced
EmptyList == [req |-> 0, json |-> "array", n |-> 0]

\* The noun in each view's status message.
Noun(k) ==
    CASE k = "goals" -> "goals"
      [] k = "logs" -> "log entries"
      [] OTHER -> "streaks"

Path(k) ==
    CASE k = "goals" -> "/goals"
      [] k = "logs" -> "/log-entries"
      [] OTHER -> "/streaks"

ScopeParam(k) ==
    CASE k = "goals" -> "streakId"
      [] k = "logs" -> "goalId"
      [] OTHER -> "userId"

\* A buildUrl that sets from and to whether or not they are empty.
buildUrlEveryFilter(k, i, f, t) ==
    [path |-> Path(k),
     query |-> <<<<ScopeParam(k), i>>>>
               \o (IF k = "logs" THEN <<<<"from", f>>, <<"to", t>>>> ELSE <<>>)]

\* The URL load() fetches: path and query pairs in the order they are set.
\* Only LogHistoryView has filters, and a filter is set only when non-empty.
buildUrl(k, i, f, t) ==
    [path |-> Path(k),
     query |-> <<<<ScopeParam(k), i>>>>
               \o (IF k = "logs" /\ f # "" THEN <<<<"from", f>>>> ELSE <<>>)
               \o (IF k = "logs" /\ t # "" THEN <<<<"to", t>>>> ELSE <<>>)]

\* new Error(`Failed to load streaks (${res.status})`)
StatusError(k, status) ==
    [name |-> "Error",
     message |-> <<"Failed to load ", Noun(k), " (", ToString(status), ")">>]

\* What fetch() and res.json() reject with.
AbortError == [name |-> "AbortError", message |-> <<"The user aborted a request.">>]
TransportErrors ==
    {[name |-> "TypeError", message |-> m] : m \in {<<>>, <<"Failed to fetch">>}}
SyntaxError == [name |-> "SyntaxError", message |-> <<"Unexpected token">>]

\* What res.json() resolves with: an array of n items, or JSON that is no array.
Arrays == {[json |-> "array", n |-> n] : n \in 0..MaxItems}
NonArrays == {[json |-> j, n |-> 0] : j \in {"object", "null"}}

\* ------------------------------------------------------------- requests
Pending(r) == r.pc # "done"

NewRequest(url, origin) ==
    [origin |-> origin, url |-> url, pc |-> "fetch", outcome |-> "pending", status |-> 0]

\* The request the current effect started (its controller is the one the
\* effect's cleanup closes over): the last request an effect started.
EffectRequests(reqs) == {n \in DOMAIN reqs : reqs[n].origin = "effect"}

Max(S) == CHOOSE x \in S : \A y \in S : y <= x

Range(seq) == {seq[i] : i \in DOMAIN seq}

EffectRequest(reqs) == Max(EffectRequests(reqs))

\* A request still updates the view only while the view is mounted: React
\* drops a state update of an unmounted component.
Live(n) == mounted

Settle(reqs, n, outcome, status) ==
    [reqs EXCEPT ![n] = [@ EXCEPT !.pc = "done", !.outcome = outcome, !.status = status]]

\* ------------------------------------------------------------- load()
\* The three pieces of React state load() writes.
State == [items |-> items, loading |-> loading, error |-> error]

InitialState == [items |-> EmptyList, loading |-> TRUE, error |-> Null]

\* A load() start that leaves the error as it is: setLoading(true) only.
loadStartKeepsError(s) == [s EXCEPT !.loading = TRUE]

\* setLoading(true); setError(null);
loadStart(s) == [s EXCEPT !.loading = TRUE, !.error = Null]

\* A catch that reports every rejection, the abort included.
loadCatchAll(s, e, n) ==
    [s EXCEPT !.error =
        [req |-> n, msg |-> IF e.message # <<>> THEN e.message ELSE <<"Failed to load">>]]

\* catch (e) { if (e?.name !== "AbortError") setError(e?.message || "Failed to load") }
loadCatch(s, e, n) ==
    IF e.name # "AbortError"
    THEN [s EXCEPT !.error =
            [req |-> n,
             msg |-> IF e.message # <<>> THEN e.message ELSE <<"Failed to load">>]]
    ELSE s

\* A load() without its finally block.
loadFinallySkipped(s) == s

\* finally { setLoading(false) }
loadFinally(s) == [s EXCEPT !.loading = FALSE]

\* load() of request n after an awaited promise rejected, or after the throw
\* on !res.ok.
loadRejected(s, e, n) == loadFinally(loadCatch(s, e, n))

\* load() of request n after res.json() resolved: setStreaks(data), finally.
loadResolved(s, data, n) ==
    loadFinally([s EXCEPT !.items = [req |-> n, json |-> data.json, n |-> data.n]])

Commit(s) ==
    /\ items' = s.items
    /\ loading' = s.loading
    /\ error' = s.error

\* ------------------------------------------------------------- useEffect
\* A cleanup that aborts nothing.
useEffectCleanupNoAbort(k, reqs) == reqs

\* The cleanup of the effect that started the view's last effect request.
\* The views App.tsx uses close over the controller and abort it; a pending
\* fetch() or res.json() then rejects with AbortError. In the earlier Streaks
\* view load() is async, so `cancel` is a Promise, never a function, and the
\* cleanup aborts nothing.
useEffectCleanup(k, reqs) ==
    LET e == EffectRequest(reqs) IN
    IF k # "streaks2" /\ Pending(reqs[e])
    THEN Settle(reqs, e, "AbortError", reqs[e].status)
    ELSE reqs

\* The effect re-runs because a dependency changed: cleanup, then load() with a
\* new controller, then the continuation of the load() the cleanup aborted
\* (catch ignores AbortError, finally clears loading).
Rerun(newId, newFrom, newTo) ==
    LET cleaned == useEffectCleanup(kind, requests)
        e == EffectRequest(requests)
        started == loadStart(State)
    IN  /\ requests' = Append(cleaned,
               NewRequest(buildUrl(kind, newId, newFrom, newTo), "effect"))
        /\ Commit(IF cleaned # requests
                  THEN loadRejected(started, AbortError, e)
                  ELSE started)

\* ------------------------------------------------------------- rendering
\* streaks.length / streaks.map(...) on a value that is no array throws.
RenderThrows(s) == s.items.json # "array"

ShowLoading == mounted /\ loading
ShowError == mounted /\ error # Null
ShowEmpty == mounted /\ ~loading /\ error = Null /\ items.n = 0
Rows == IF mounted THEN items.n ELSE 0

\* ------------------------------------------------------------- actions
\* The first render of a view and its effect: load({ signal }).
Init ==
    /\ mounted = TRUE
    /\ crashed = FALSE
    /\ kind \in Kinds
    /\ id = FirstId
    /\ from = ""
    /\ to = ""
    /\ items = loadStart(InitialState).items
    /\ loading = loadStart(InitialState).loading
    /\ error = loadStart(InitialState).error
    /\ requests = <<NewRequest(buildUrl(kind, FirstId, "", ""), "effect")>>
    /\ AppIdle
    /\ CellIdle

\* The view leaves the tree: the effect's cleanup runs and the state is gone.
Discard ==
    /\ mounted' = FALSE
    /\ from' = ""
    /\ to' = ""
    /\ Commit(InitialState)
    /\ UNCHANGED <<kind, id>>

Unmount ==
    /\ mounted
    /\ requests' = useEffectCleanup(kind, requests)
    /\ Discard
    /\ UNCHANGED crashed
    /\ UNCHANGED <<appVars, cellVars>>

\* The parent renders the view with another userId / streakId / goalId.
ChangeScopeId(i) ==
    /\ mounted
    /\ i # id
    /\ Len(requests) < MaxRequests
    /\ id' = i
    /\ Rerun(i, from, to)
    /\ UNCHANGED <<mounted, crashed, kind, from, to>>
    /\ UNCHANGED <<appVars, cellVars>>

\* onChange of the From input.
setFrom(d) ==
    /\ mounted /\ kind = "logs"
    /\ d # from
    /\ Len(requests) < MaxRequests
    /\ from' = d
    /\ Rerun(id, d, to)
    /\ UNCHANGED <<mounted, crashed, kind, id, to>>
    /\ UNCHANGED <<appVars, cellVars>>

\* onChange of the To input.
setTo(d) ==
    /\ mounted /\ kind = "logs"
    /\ d # to
    /\ Len(requests) < MaxRequests
    /\ to' = d
    /\ Rerun(id, from, d)
    /\ UNCHANGED <<mounted, crashed, kind, id, from>>
    /\ UNCHANGED <<appVars, cellVars>>

\* The Refresh button: load() with no signal the view can abort.
Refresh ==
    /\ mounted
    /\ Len(requests) < MaxRequests
    /\ Commit(loadStart(State))
    /\ requests' = Append(requests,
           NewRequest(buildUrl(kind, id, from, to), "refresh"))
    /\ UNCHANGED <<mounted, crashed, kind, id, from, to>>
    /\ UNCHANGED <<appVars, cellVars>>

\* fetch() resolves with a 2xx response: load() goes on to await res.json().
FetchOk(n) ==
    /\ n \in DOMAIN requests
    /\ requests[n].pc = "fetch"
    /\ requests' = [requests EXCEPT ![n] = [@ EXCEPT !.pc = "json", !.status = 200]]
    /\ UNCHANGED <<mounted, crashed, kind, id, from, to, items, loading, error>>
    /\ UNCHANGED <<appVars, cellVars>>

\* fetch() resolves with res.ok = false: load() throws the status error.
FetchNotOk(n, status) ==
    /\ n \in DOMAIN requests
    /\ requests[n].pc = "fetch"
    /\ requests' = Settle(requests, n, "Error", status)
    /\ IF Live(n)
       THEN Commit(loadRejected(State, StatusError(kind, status), n))
       ELSE UNCHANGED <<items, loading, error>>
    /\ UNCHANGED <<mounted, crashed, kind, id, from, to>>
    /\ UNCHANGED <<appVars, cellVars>>

\* fetch() or res.json() rejects: the network failed, or the body is no JSON.
Rejects(n, e) ==
    /\ n \in DOMAIN requests
    /\ Pending(requests[n])
    /\ e.name = "SyntaxError" => requests[n].pc = "json"
    /\ requests' = Settle(requests, n, e.name, requests[n].status)
    /\ IF Live(n)
       THEN Commit(loadRejected(State, e, n))
       ELSE UNCHANGED <<items, loading, error>>
    /\ UNCHANGED <<mounted, crashed, kind, id, from, to>>
    /\ UNCHANGED <<appVars, cellVars>>

\* res.json() resolves: setStreaks(data), and the view renders the new state.
\* A render that throws has no error boundary above it (App.tsx has none), so
\* React removes the whole tree, running the effect's cleanup.
JsonResolves(n, data) ==
    /\ n \in DOMAIN requests
    /\ requests[n].pc = "json"
    /\ LET settled == Settle(requests, n, data.json, 200)
           s == loadResolved(State, data, n)
       IN  IF Live(n) /\ RenderThrows(s)
           THEN /\ crashed' = TRUE
                /\ requests' = useEffectCleanup(kind, settled)
                /\ Discard
           ELSE /\ requests' = settled
                /\ IF Live(n) THEN Commit(s) ELSE UNCHANGED <<items, loading, error>>
                /\ UNCHANGED <<mounted, crashed, kind, id, from, to>>
    /\ UNCHANGED <<appVars, cellVars>>

Next ==
    \/ Unmount
    \/ \E i \in Ids : ChangeScopeId(i)
    \/ \E d \in Dates : setFrom(d)
    \/ \E d \in Dates : setTo(d)
    \/ Refresh
    \/ \E n \in 1..MaxRequests : FetchOk(n)
    \/ \E n \in 1..MaxRequests, s \in ErrorStatuses : FetchNotOk(n, s)
    \/ \E n \in 1..MaxRequests, e \in TransportErrors \cup {SyntaxError} : Rejects(n, e)
    \/ \E n \in 1..MaxRequests, data \in Arrays \cup NonArrays : JsonResolves(n, data)

Spec == Init /\ [][Next]_vars

\* Request n takes its next step: the network answers, fails, or the body is read.
Resolve(n) ==
    \/ FetchOk(n)
    \/ \E s \in ErrorStatuses : FetchNotOk(n, s)
    \/ \E e \in TransportErrors \cup {SyntaxError} : Rejects(n, e)
    \/ \E data \in Arrays \cup NonArrays : JsonResolves(n, data)

\* The view under a network that answers every request; the user's triggers
\* end because requests are bounded.
LiveSpec == Spec /\ \A n \in 1..MaxRequests : WF_vars(Resolve(n))

\* ------------------------------------------------------------- App.tsx
\* JSON values the views read: null, a string, a number; and a prop or field
\* that was never set.
NullValue == [t |-> "null"]
Undefined == [t |-> "undefined"]
Str(x) == [t |-> "string", s |-> x]
\* A number is v / 10^e, kept with no trailing zero in its fraction.
Num(x) == [t |-> "number", v |-> x, e |-> 0]
NaN == [t |-> "NaN"]
Bool(b) == [t |-> "boolean", b |-> b]

GoalTypes == {"binary", "count"}

\* The rows a loaded view can show, as the backend supplies them.
StreakRows == [id : Ids, name : {"Reading"}]
GoalRows == [id : Ids, name : {"Water"}, type : GoalTypes, unit : {NullValue, Str("L")}]
EntryRows == [value : {NullValue, Num(250)}, done : {Bool(TRUE), Bool(FALSE)}]

\* const showStreaks / showGoals / showLogs
showStreaks == selectedStreak = NoSelection

\* A showGoals that forgets the goal: !!selectedStreak.
showGoalsAnyGoal == selectedStreak # NoSelection

showGoals == selectedStreak # NoSelection /\ selectedGoal = NoSelection
showLogs == selectedStreak # NoSelection /\ selectedGoal # NoSelection

\* The list views App renders, each with the scoping id it is given.
Rendered ==
    (IF showStreaks THEN {[view |-> "streaks", scope |-> FirstId]} ELSE {})
    \cup (IF showGoals THEN {[view |-> "goals", scope |-> selectedStreak.id]} ELSE {})
    \cup (IF showLogs THEN {[view |-> "logs", scope |-> selectedGoal.id]} ELSE {})

\* Selection depth: 0 = streaks, 1 = goals, 2 = logs.
Depth ==
    (IF selectedStreak # NoSelection THEN 1 ELSE 0)
    + (IF selectedGoal # NoSelection THEN 1 ELSE 0)

\* The two selections, and the record of a click handler that runs on them:
\* the handler, the row clicked (none for a Back button), the selections before.
Selection == [streak |-> selectedStreak, goal |-> selectedGoal]

Click(name, row) ==
    /\ Len(clicks) < MaxClicks
    /\ clicks' = Append(clicks, [click |-> name, row |-> row, before |-> Selection])

\* What the shown view's list can hold.
RowsOf(view) ==
    CASE view = "streaks" -> StreakRows
      [] view = "goals" -> GoalRows
      [] OTHER -> EntryRows

Loadable(view) == {rs \in SUBSET RowsOf(view) : Cardinality(rs) <= MaxItems}

\* No view of the request machine is mounted.
ViewIdle ==
    /\ mounted = FALSE
    /\ crashed = FALSE
    /\ kind = "streaks"
    /\ id = FirstId
    /\ from = ""
    /\ to = ""
    /\ items = InitialState.items
    /\ loading = InitialState.loading
    /\ error = InitialState.error
    /\ requests = <<>>

AppInit ==
    /\ AppIdle
    /\ ViewIdle
    /\ CellIdle

\* The shown view's load() stores a response: setStreaks / setGoals / setEntries.
ListLoads(rs) ==
    /\ \E r \in Rendered : rs \in Loadable(r.view)
    /\ rs # rows
    /\ rows' = rs
    /\ UNCHANGED <<selectedStreak, selectedGoal, clicks>>
    /\ UNCHANGED <<viewVars, cellVars>>

\* A row of the Streaks view is clicked: onSelectStreak(s.id, s.name).
onSelectStreak(row) ==
    /\ showStreaks
    /\ row \in rows
    /\ Click("onSelectStreak", row)
    /\ selectedGoal' = NoSelection
    /\ selectedStreak' = [id |-> row.id, name |-> row.name]
    /\ rows' = {}
    /\ UNCHANGED <<viewVars, cellVars>>

\* A "Back to Streaks" that is also rendered at the logs level.
BackToStreaksAnyLevel ==
    /\ ~showStreaks
    /\ Click("BackToStreaks", NoSelection)
    /\ selectedStreak' = NoSelection
    /\ selectedGoal' = NoSelection
    /\ rows' = {}
    /\ UNCHANGED <<viewVars, cellVars>>

\* A "Back to Streaks" that clears only the goal.
BackToStreaksKeepsStreak ==
    /\ showGoals
    /\ Click("BackToStreaks", NoSelection)
    /\ selectedGoal' = NoSelection
    /\ rows' = {}
    /\ UNCHANGED selectedStreak
    /\ UNCHANGED <<viewVars, cellVars>>

\* "Back to Streaks", rendered at the goals level.
BackToStreaks ==
    /\ showGoals
    /\ Click("BackToStreaks", NoSelection)
    /\ selectedGoal' = NoSelection
    /\ selectedStreak' = NoSelection
    /\ rows' = {}
    /\ UNCHANGED <<viewVars, cellVars>>

\* A row of the Goals view is clicked: onSelectGoal(g.id, g.name, g.type);
\* App stores { id, name, type }.
onSelectGoal(row) ==
    /\ showGoals
    /\ row \in rows
    /\ Click("onSelectGoal", row)
    /\ selectedGoal' = [id |-> row.id, name |-> row.name, type |-> row.type]
    /\ rows' = {}
    /\ UNCHANGED selectedStreak
    /\ UNCHANGED <<viewVars, cellVars>>

\* A "Back to Goals" that clears the streak instead of the goal.
BackToGoalsClearsStreak ==
    /\ showLogs
    /\ Click("BackToGoals", NoSelection)
    /\ selectedStreak' = NoSelection
    /\ rows' = {}
    /\ UNCHANGED selectedGoal
    /\ UNCHANGED <<viewVars, cellVars>>

\* "Back to Goals", rendered at the logs level.
BackToGoals ==
    /\ showLogs
    /\ Click("BackToGoals", NoSelection)
    /\ selectedGoal' = NoSelection
    /\ rows' = {}
    /\ UNCHANGED selectedStreak
    /\ UNCHANGED <<viewVars, cellVars>>

AppNext ==
    \/ \E rs \in Loadable("streaks") \cup Loadable("goals") \cup Loadable("logs") : ListLoads(rs)
    \/ \E row \in StreakRows : onSelectStreak(row)
    \/ BackToStreaks
    \/ \E row \in GoalRows : onSelectGoal(row)
    \/ BackToGoals

AppSpec == AppInit /\ [][AppNext]_vars

\* The props App gives LogHistoryView at the logs level. selectedGoal?.unit
\* reads a field the stored object may lack.
LogHistoryProps ==
    [goalId |-> selectedGoal.id,
     goalName |-> selectedGoal.name,
     goalType |-> Str(selectedGoal.type),
     unit |-> IF "unit" \in DOMAIN selectedGoal THEN selectedGoal.unit ELSE Undefined]

\* ------------------------------------------------------------- item lines
\* A string that is converted to a number is kept as its characters.
Digits == {"0", "1", "2", "3", "4", "5", "6", "7", "8", "9"}

DigitValue(c) ==
    CASE c = "0" -> 0 [] c = "1" -> 1 [] c = "2" -> 2 [] c = "3" -> 3 [] c = "4" -> 4
      [] c = "5" -> 5 [] c = "6" -> 6 [] c = "7" -> 7 [] c = "8" -> 8 [] c = "9" -> 9

RECURSIVE DigitsValue(_)
DigitsValue(ds) ==
    IF ds = <<>> THEN 0
    ELSE DigitsValue(SubSeq(ds, 1, Len(ds) - 1)) * 10 + DigitValue(ds[Len(ds)])

RECURSIVE Dec(_, _)
Dec(m, e) ==
    IF e > 0 /\ m % 10 = 0 THEN Dec(m \div 10, e - 1)
    ELSE [t |-> "number", v |-> m, e |-> e]

RECURSIVE Trim(_)
Trim(cs) ==
    IF cs # <<>> /\ Head(cs) = " " THEN Trim(Tail(cs))
    ELSE IF cs # <<>> /\ cs[Len(cs)] = " " THEN Trim(SubSeq(cs, 1, Len(cs) - 1))
    ELSE cs

\* Number(string): white space is trimmed, the empty string is 0, a decimal
\* literal is its value, anything else is NaN.
StringToNumber(cs) ==
    LET t == Trim(cs)
        signed == t # <<>> /\ t[1] \in {"+", "-"}
        body == IF signed THEN Tail(t) ELSE t
        dots == {i \in DOMAIN body : body[i] = "."}
        ds == SelectSeq(body, LAMBDA c : c # ".")
        e == IF dots = {} THEN 0 ELSE Len(body) - Max(dots)
        m == DigitsValue(ds)
    IN  IF t = <<>> THEN Num(0)
        ELSE IF /\ Cardinality(dots) <= 1
                /\ ds # <<>>
                /\ \A i \in DOMAIN ds : ds[i] \in Digits
             THEN Dec(IF signed /\ t[1] = "-" THEN 0 - m ELSE m, e)
             ELSE NaN

\* Number(x)
Number(x) ==
    CASE x.t = "string" -> StringToNumber(x.s)
      [] x.t = "null" -> Num(0)
      [] x.t = "undefined" -> NaN
      [] OTHER -> x

RECURSIVE Pow10(_)
Pow10(e) == IF e = 0 THEN 1 ELSE 10 * Pow10(e - 1)

RECURSIVE Pad(_, _)
Pad(x, w) == IF w = 0 THEN "" ELSE Pad(x \div 10, w - 1) \o ToString(x % 10)

\* `${n}` of a number
NumberToString(n) ==
    IF n = NaN THEN "NaN"
    ELSE LET a == IF n.v < 0 THEN 0 - n.v ELSE n.v
             p == Pow10(n.e)
         IN  (IF n.v < 0 THEN "-" ELSE "")
             \o ToString(a \div p)
             \o (IF n.e > 0 THEN "." \o Pad(a % p, n.e) ELSE "")

\* x != null
NotNullish(x) == x # NullValue /\ x # Undefined

\* function formatTarget(goal)
formatTarget(goal) ==
    IF goal.type # "count" THEN "binary"
    ELSE LET n == IF NotNullish(goal.perDayTarget)
                  THEN Number(goal.perDayTarget) ELSE NullValue
             unit == IF NotNullish(goal.unit) THEN goal.unit.s ELSE ""
         IN  IF n # NullValue /\ n # NaN
             THEN IF unit # ""
                  THEN NumberToString(n) \o " " \o unit \o "/day"
                  ELSE NumberToString(n) \o "/day"
             ELSE IF unit # "" THEN unit \o "/day" ELSE "count"

\* {g.type === "binary" ? "binary" : formatTarget(g)}
SecondaryLine(g) == IF g.type = "binary" THEN "binary" ELSE formatTarget(g)

\* The em dash renderValue returns, named by its code point.
EmDash == "U+2014"

\* A renderValue that converts the value without looking for null.
renderValueOfNull(e, goalType, unit) ==
    IF goalType = Str("binary") THEN (IF e.done = Bool(TRUE) THEN "Done" ELSE "Not done")
    ELSE LET n == Number(e.value)
         IN  IF n # NaN
             THEN IF NotNullish(unit) /\ unit.s # ""
                  THEN NumberToString(n) \o " " \o unit.s
                  ELSE NumberToString(n)
             ELSE EmDash

\* function renderValue(e), with the props goalType and unit it closes over
renderValue(e, goalType, unit) ==
    IF goalType = Str("binary") THEN (IF e.done = Bool(TRUE) THEN "Done" ELSE "Not done")
    ELSE LET n == IF NotNullish(e.value) THEN Number(e.value) ELSE NullValue
         IN  IF n # NullValue /\ n # NaN
             THEN IF NotNullish(unit) /\ unit.s # ""
                  THEN NumberToString(n) \o " " \o unit.s
                  ELSE NumberToString(n)
             ELSE EmDash

\* perDayTarget / value as the backend may send it: null, a number, a decimal
\* serialised as a string, or another string.
Numerics(n) ==
    {NullValue, Num(n), Str(<<"2">>), Str(<<"2", "5", "0">>), Str(<<"2", ".", "5", "0">>),
     Str(<<"a", "b", "c">>), Str(<<>>)}

\* The goals a Goals view can be given, and the entries and props of a Log
\* Entries view.
GoalCells ==
    [view : {"goals"},
     goal : [type : GoalTypes, perDayTarget : Numerics(2),
             unit : {NullValue, Str(""), Str("L")}]]
EntryCells ==
    [view : {"logs"},
     entry : [value : Numerics(250), done : {Bool(TRUE), Bool(FALSE), NullValue}],
     goalType : {Str(type) : type \in GoalTypes} \cup {Undefined},
     unit : {Undefined, NullValue, Str(""), Str("ml")}]

RenderInit ==
    /\ cell \in GoalCells \cup EntryCells
    /\ text = NoText
    /\ AppIdle
    /\ ViewIdle

\* GoalsListView renders the secondary line of a goal.
RenderGoal ==
    /\ cell.view = "goals"
    /\ text = NoText
    /\ text' = [rendered |-> TRUE, s |-> SecondaryLine(cell.goal)]
    /\ UNCHANGED <<cell, viewVars, appVars>>

\* LogHistoryView renders the value of an entry.
RenderEntry ==
    /\ cell.view = "logs"
    /\ text = NoText
    /\ text' = [rendered |-> TRUE, s |-> renderValue(cell.entry, cell.goalType, cell.unit)]
    /\ UNCHANGED <<cell, viewVars, appVars>>

RenderNext == RenderGoal \/ RenderEntry

RenderSpec == RenderInit /\ [][RenderNext]_vars

\* ------------------------------------------------------------- claims
\* An effect request that a later run of the effect has superseded: the
\* parameters changed after it was started.
Superseded(reqs, n) == reqs[n].origin = "effect" /\ n < EffectRequest(reqs)

CurrentUrl == buildUrl(kind, id, from, to)

\* Request n settles in this step by its own resolution: no load() starts in
\* the step, so no cleanup ran.
SettlesAlone(n) ==
    /\ n \in DOMAIN requests
    /\ Pending(requests[n])
    /\ requests'[n].pc = "done"
    /\ Len(requests') = Len(requests)

\* C1: in the views App.tsx uses (Streaks, Goals, Log Entries), a request the
\* effect started that was unresolved when a parameter change superseded it never
\* becomes the source of the item list or of the error message: in no step does a
\* request that was pending before the step and is superseded after it write them.
C1_SupersededNeverWrites ==
    [][kind # "streaks2" =>
        \A n \in DOMAIN requests :
            (Pending(requests[n]) /\ Superseded(requests', n))
                => (items'.req # n /\ error'.req # n)]_vars

\* C1 witness: request 1 was aborted by a parameter change and the request of
\* the new parameters has populated the list.
C1_Witness ==
    /\ mounted /\ kind # "streaks2"
    /\ Len(requests) >= 2
    /\ requests[1].outcome = "AbortError"
    /\ requests[2].origin = "effect"
    /\ requests[2].url # requests[1].url
    /\ items.req = 2 /\ items.n > 0

\* C2: in the views App.tsx uses, a request that settles while a later Refresh
\* request for the same URL exists changes none of loading, error and the item
\* list.
C2_OnlyLatestWrites ==
    [][\A n \in DOMAIN requests :
        (mounted /\ kind # "streaks2" /\ SettlesAlone(n)
         /\ \E m \in DOMAIN requests :
                m > n /\ requests[m].origin = "refresh" /\ requests[m].url = requests[n].url)
            => UNCHANGED <<loading, error, items>>]_vars

\* C3: in the Log Entries view no step makes a Refresh request the source of the
\* item list or of the error while the request's URL is not the URL of the
\* view's current goalId, from and to.
C3_RefreshNeverStale ==
    [][kind = "logs" =>
        \A n \in DOMAIN requests :
            (mounted /\ requests[n].origin = "refresh" /\ SettlesAlone(n)
             /\ requests[n].url # CurrentUrl)
                => (items'.req # n /\ error'.req # n)]_vars

\* C4: the error state is set only by a request that ended with a non-2xx
\* status, a transport failure or a body that is no JSON; a request that ended
\* by its abort is never the source of the error.
C4_AbortIsNoError ==
    (mounted /\ error # Null) =>
        /\ error.req \in DOMAIN requests
        /\ requests[error.req].pc = "done"
        /\ requests[error.req].outcome \in {"Error", "TypeError", "SyntaxError"}
        /\ requests[error.req].outcome = "Error"
               => requests[error.req].status \in ErrorStatuses

\* C4 witness: a request was aborted by a parameter change, its load() has
\* finished (loading is false while the new request is in flight), and no error is shown.
C4_Witness ==
    /\ mounted
    /\ Len(requests) = 2
    /\ requests[1].outcome = "AbortError"
    /\ Pending(requests[2])
    /\ ~loading
    /\ error = Null

\* C5: while the request B a parameter change started is unresolved and every
\* earlier request was aborted, the view is in Loading and shows no empty-state
\* placeholder.
C5_AbortKeepsLoading ==
    (/\ mounted
     /\ Len(requests) >= 2
     /\ requests[Len(requests)].origin = "effect"
     /\ Pending(requests[Len(requests)])
     /\ \A n \in 1..(Len(requests) - 1) : requests[n].outcome = "AbortError")
        => (loading /\ ~ShowEmpty)

\* C6: once the view is unmounted no request of it is still in flight: each was
\* aborted by the unmount.
C6_UnmountAbortsAll ==
    (~mounted /\ ~crashed) => \A n \in DOMAIN requests : ~Pending(requests[n])

\* C7: in the views App.tsx uses, while the loading message is shown, no item
\* rows and no empty-state placeholder are rendered.
C7_LoadingSuppressesList ==
    (kind # "streaks2" /\ ShowLoading) => (Rows = 0 /\ ~ShowEmpty)

\* C8: a non-2xx response to a request of the mounted view leaves the view
\* Failed with a message that holds the status code, and no item rows rendered.
C8_StatusFailure ==
    [][\A n \in DOMAIN requests :
        (mounted /\ requests[n].pc = "fetch" /\ requests'[n].outcome = "Error")
            => /\ mounted' /\ ~loading'
               /\ ToString(requests'[n].status) \in Range(error'.msg)
               /\ Rows' = 0]_vars

\* C9: in the views App.tsx uses, a 2xx response whose body is no JSON or no
\* array leaves the view mounted and Failed, with the item list still an array.
C9_MalformedBodyFails ==
    [][\A n \in DOMAIN requests :
        (mounted /\ kind # "streaks2" /\ requests[n].pc = "json" /\ SettlesAlone(n)
         /\ requests'[n].outcome \in {"SyntaxError", "object", "null"})
            => (mounted' /\ ~crashed' /\ error' # Null /\ items'.json = "array")]_vars

\* C10: while the first request is the only one, the view is in Loading with no
\* error banner as long as it is pending, and its 200 response with an empty
\* array leaves the view Loaded: error null, the empty-state placeholder shown,
\* no error banner and no rows.
C10_EmptyLoad ==
    [][(mounted /\ Len(requests) = 1 /\ Pending(requests[1])) =>
        /\ loading /\ error = Null /\ ~ShowError
        /\ (SettlesAlone(1) /\ requests'[1].outcome = "array") =>
              /\ mounted' /\ ~loading' /\ error' = Null
              /\ items'.req = 1
              /\ items'.n = 0 => (ShowEmpty' /\ ~ShowError' /\ Rows' = 0)]_vars

\* C10 witness: the first request, still the only one, was answered with an
\* empty array and the placeholder is shown.
C10_Witness ==
    /\ mounted
    /\ Len(requests) = 1
    /\ requests[1].outcome = "array"
    /\ items = [req |-> 1, json |-> "array", n |-> 0]
    /\ ShowEmpty /\ ~ShowError

\* C11: a goal is selected only while a streak is selected.
C11_GoalNeedsStreak == selectedGoal # NoSelection => selectedStreak # NoSelection

\* C11 witness: a goal is selected under a streak, after every kind of click.
C11_Witness ==
    /\ showLogs
    /\ {clicks[i].click : i \in DOMAIN clicks}
           = {"onSelectStreak", "onSelectGoal", "BackToGoals"}

\* The click handler that ran in this step.
Clicked(name) ==
    /\ Len(clicks') = Len(clicks) + 1
    /\ clicks'[Len(clicks')].click = name

\* C12: Back at the goals level leaves no streak selected (level 0); Back at the
\* logs level clears the goal and leaves the selected streak as it was (level 1);
\* selecting a streak leaves no goal selected.
C12_BackEffects ==
    [][/\ Clicked("BackToStreaks") => (selectedStreak' = NoSelection /\ Depth' = 0)
       /\ Clicked("BackToGoals") =>
              /\ selectedGoal' = NoSelection
              /\ selectedStreak' = selectedStreak
              /\ selectedStreak' # NoSelection
              /\ Depth' = 1
       /\ Clicked("onSelectStreak") => selectedGoal' = NoSelection]_vars

\* C12 witness: both Back buttons and a streak row have been clicked.
C12_Witness ==
    /\ Len(clicks) = 4
    /\ clicks[1].click = "onSelectStreak"
    /\ clicks[3].click = "BackToGoals"
    /\ clicks[4].click = "BackToStreaks"
    /\ showStreaks

\* The row of the last click that ran the handler.
LastRow(name) ==
    LET is == {i \in DOMAIN clicks : clicks[i].click = name}
    IN  clicks[Max(is)].row

\* C13: App renders exactly one list view, chosen by the selection depth:
\* Streaks at depth 0, Goals at depth 1 scoped to the id of the streak row that
\* was clicked, Log Entries at depth 2 scoped to the id of the goal row that was
\* clicked.
C13_OneViewByDepth ==
    /\ Cardinality(Rendered) = 1
    /\ Depth = 0 => \A r \in Rendered : r.view = "streaks"
    /\ Depth = 1 =>
          Rendered = {[view |-> "goals", scope |-> LastRow("onSelectStreak").id]}
    /\ Depth = 2 =>
          Rendered = {[view |-> "logs", scope |-> LastRow("onSelectGoal").id]}

\* C13 witness: the logs level of goal B under streak A, reached a second time.
C13_Witness ==
    /\ Len(clicks) = 4
    /\ clicks[3].click = "BackToGoals"
    /\ Rendered = {[view |-> "logs", scope |-> "B"]}
    /\ selectedStreak.id = "A"

\* C14: every click changes the depth by exactly one level: 0 to 1 by a streak
\* selection, 1 to 2 by a goal selection that keeps the streak, 2 to 1 by "Back
\* to Goals", 1 to 0 by "Back to Streaks"; depth 2 is entered only by a goal
\* selection made at depth 1, and a step without a click keeps the depth.
C14_LinearNavigation ==
    [][/\ clicks' = clicks => Depth' = Depth
       /\ clicks' # clicks => (Depth' = Depth + 1 \/ Depth' = Depth - 1)
       /\ Clicked("onSelectStreak") => (Depth = 0 /\ Depth' = 1)
       /\ Clicked("onSelectGoal") =>
             (Depth = 1 /\ Depth' = 2 /\ selectedStreak' = selectedStreak)
       /\ Clicked("BackToGoals") => (Depth = 2 /\ Depth' = 1)
       /\ Clicked("BackToStreaks") => (Depth = 1 /\ Depth' = 0)
       /\ (Depth' = 2 /\ Depth # 2) =>
             /\ Depth = 1
             /\ Clicked("onSelectGoal")
             /\ selectedStreak' = selectedStreak]_vars

\* C14 witness: depth 2 reached after a streak was selected, left and selected
\* again.
C14_Witness ==
    /\ Len(clicks) = 4
    /\ clicks[2].click = "BackToStreaks"
    /\ clicks[4].click = "onSelectGoal"
    /\ Depth = 2

\* The selections after the i-th click.
After(i) == IF i < Len(clicks) THEN clicks[i + 1].before ELSE Selection

\* The j-th click is the Back button that undoes the i-th click.
Matching(i, j) ==
    \/ clicks[i].click = "onSelectStreak" /\ clicks[j].click = "BackToStreaks"
    \/ clicks[i].click = "onSelectGoal" /\ clicks[j].click = "BackToGoals"

\* C15: select streak, select goal, Back, Back from the initial state ends with
\* no streak and no goal selected and the Streaks view shown; a select followed
\* at once by its matching Back restores the selections held before the select.
C15_BackUndoesSelect ==
    /\ \A i \in DOMAIN clicks :
          (/\ i + 3 \in DOMAIN clicks
           /\ clicks[i].before = [streak |-> NoSelection, goal |-> NoSelection]
           /\ clicks[i].click = "onSelectStreak"
           /\ clicks[i + 1].click = "onSelectGoal"
           /\ clicks[i + 2].click = "BackToGoals"
           /\ clicks[i + 3].click = "BackToStreaks")
          => /\ After(i + 3) = [streak |-> NoSelection, goal |-> NoSelection]
             /\ After(i + 3) = clicks[1].before
             /\ i + 3 = Len(clicks) => showStreaks
    /\ \A i \in DOMAIN clicks :
          (i + 1 \in DOMAIN clicks /\ Matching(i, i + 1))
          => After(i + 1) = clicks[i].before

\* C15 witness: streak A, goal B, Back, Back.
C15_Witness ==
    /\ [i \in DOMAIN clicks |-> clicks[i].click]
          = <<"onSelectStreak", "onSelectGoal", "BackToGoals", "BackToStreaks">>
    /\ clicks[1].row.id = "A"
    /\ clicks[2].row.id = "B"
    /\ Selection = clicks[1].before

\* The parameters a request's query string carries.
Params(r) == Range(r.url.query)

\* C16: in the Log Entries view every step of the mounted view that changes from
\* or to starts one new request, and every request started carries goalId and exactly the filters
\* that are non-empty when it starts, with their values then; no request carries
\* a filter with an empty value.
C16_QueryFollowsFilters ==
    [][(kind = "logs" /\ mounted') =>
        /\ (from' # from \/ to' # to) => Len(requests') = Len(requests) + 1
        /\ Len(requests') = Len(requests) + 1 =>
              LET r == requests'[Len(requests')] IN
              /\ Len(r.url.query) = Cardinality(Params(r))
              /\ Params(r) = {<<"goalId", id'>>}
                                \cup (IF from' # "" THEN {<<"from", from'>>} ELSE {})
                                \cup (IF to' # "" THEN {<<"to", to'>>} ELSE {})
              /\ \A q \in Params(r) : q[2] # ""]_vars

\* C16 witness: a request with the from filter, then one after it was cleared.
C16_Witness ==
    /\ kind = "logs"
    /\ Len(requests) = 3
    /\ \E q \in Params(requests[2]) : q[1] = "from"
    /\ Params(requests[3]) = {<<"goalId", id>>}
    /\ requests[3].origin = "effect"
    /\ from = ""

\* A step that starts a request.
Starts == Len(requests') = Len(requests) + 1

\* C17: in the views App.tsx uses, a request starts only in a step that changes
\* a parameter or is a Refresh click; while the view is Failed and no request
\* starts, the error message stays as it is; and every step that starts a request
\* leaves the error cleared and the view in Loading.
C17_NoAutomaticRetry ==
    [][(kind # "streaks2" /\ mounted /\ mounted') =>
        /\ Starts =>
              \/ id' # id \/ from' # from \/ to' # to
              \/ requests'[Len(requests')].origin = "refresh"
        /\ (~loading /\ error # Null /\ ~Starts) =>
              (error' # Null /\ error'.msg = error.msg)
        /\ Starts => (error' = Null /\ loading')]_vars

\* A numeric value is present: a number, or a string that is a decimal numeral.
Numeral(cs) ==
    /\ \E i \in DOMAIN cs : cs[i] \in Digits
    /\ \A i \in DOMAIN cs : cs[i] \in Digits \cup {"."}
    /\ Cardinality({i \in DOMAIN cs : cs[i] = "."}) <= 1

NumericPresent(x) == x.t = "number" \/ (x.t = "string" /\ Numeral(x.s))

\* A unit is available: a non-empty string.
UnitPresent(u) == u.t = "string" /\ u.s # ""

\* C18: the secondary line of a rendered goal is "binary" for a binary goal; for
\* a count goal with a unit it is "{target} {unit}/day" when the target is a
\* number or a numeric string and "{unit}/day" when the target is null or a
\* non-numeric string; for a count goal with neither a numeric target nor a unit
\* it is "count".
C18_GoalSecondaryLine ==
    (cell.view = "goals" /\ text # NoText) =>
        LET g == cell.goal IN
        /\ g.type = "binary" => text.s = "binary"
        /\ (g.type = "count" /\ NumericPresent(g.perDayTarget) /\ UnitPresent(g.unit)) =>
              text.s = NumberToString(Number(g.perDayTarget)) \o " " \o g.unit.s \o "/day"
        /\ (g.type = "count" /\ ~NumericPresent(g.perDayTarget) /\ UnitPresent(g.unit)) =>
              text.s = g.unit.s \o "/day"
        /\ (g.type = "count" /\ ~NumericPresent(g.perDayTarget) /\ ~UnitPresent(g.unit)) =>
              text.s = "count"

\* C19: the value of a rendered entry is "Done" / "Not done" for a binary goal
\* with done true / false; for a count goal a number or numeric string is shown
\* as the number, followed by a space and the unit when a unit is given, and a
\* null value is shown as an em dash.
C19_EntryValue ==
    (cell.view = "logs" /\ text # NoText) =>
        LET e == cell.entry IN
        /\ (cell.goalType = Str("binary") /\ e.done = Bool(TRUE)) => text.s = "Done"
        /\ (cell.goalType = Str("binary") /\ e.done = Bool(FALSE)) => text.s = "Not done"
        /\ (cell.goalType = Str("count") /\ NumericPresent(e.value)) =>
              text.s = NumberToString(Number(e.value))
                         \o (IF UnitPresent(cell.unit) THEN " " \o cell.unit.s ELSE "")
        /\ (cell.goalType = Str("count") /\ e.value = NullValue) => text.s = EmDash

\* C19 witness: the string "250" of a count goal with unit ml, rendered.
C19_Witness ==
    /\ cell.view = "logs"
    /\ cell.goalType = Str("count")
    /\ cell.entry.value = Str(<<"2", "5", "0">>)
    /\ cell.unit = Str("ml")
    /\ text = [rendered |-> TRUE, s |-> "250 ml"]

\* C20: a mounted view never shows the loading message and the error banner
\* together: loading = true implies error = null.
C20_LoadingExcludesError == (mounted /\ loading) => (error = Null /\ ~ShowError)

\* C20 witness: a request failed, and the Refresh after it is loading.
C20_Witness ==
    /\ mounted /\ loading
    /\ Len(requests) >= 2
    /\ requests[Len(requests)].origin = "refresh"
    /\ \A n \in 1..(Len(requests) - 1) :
          requests[n].outcome \in {"Error", "TypeError", "SyntaxError"}

\* The view shows the outcome of request n: its error, or with no error its
\* items (rows, or the empty-state placeholder).
ShowsOutcomeOf(n) ==
    \/ error # Null /\ error.req = n
    \/ error = Null /\ items.req = n

\* C21: when every request resolves and the triggers end, a view App.tsx uses
\* that stays mounted is eventually out of Loading for good, showing the outcome
\* of a request that was issued for its current parameters.
C21_EventuallyShowsCurrent ==
    <>[]((mounted /\ kind # "streaks2") =>
            /\ ~loading
            /\ \E n \in DOMAIN requests :
                  requests[n].url = CurrentUrl /\ ShowsOutcomeOf(n))

\* C22: at the logs level the Log Entries view is given the id, name, type and
\* unit of the goal row that was clicked (a null unit and no unit count as the
\* same), so a value of a count goal with a unit is rendered with the unit
\* after it.
C22_GoalFieldsReachLogs ==
    showLogs =>
        LET g == LastRow("onSelectGoal")
            p == LogHistoryProps
        IN  /\ p.goalId = g.id
            /\ p.goalName = g.name
            /\ p.goalType = Str(g.type)
            /\ IF UnitPresent(g.unit) THEN p.unit = g.unit ELSE ~UnitPresent(p.unit)
            /\ (g.type = "count" /\ UnitPresent(g.unit)) =>
                  renderValue([value |-> Num(250), done |-> NullValue], p.goalType, p.unit)
                      = "250 " \o g.unit.s

====
